---- MODULE Spec2Model ----
(***************************************************************************)
(* A model of the two Telegram bots of this repository.                    *)
(*                                                                         *)
(*   src/bot.py        handle_message: the restricted-word check of group  *)
(*                     chats, the Gemini call and the reply.               *)
(*   src/gemini_v3.py  mode_command: the /mode command and the per-chat    *)
(*                     chat_data["response_mode"].                         *)
(*                                                                         *)
(* Text is a sequence of one-character strings, so that str.lower(),       *)
(* str.capitalize(), the `in` substring test and the f-strings are         *)
(* computed rather than assumed.  A character outside ASCII is written as  *)
(* its code point ("U+1F6A8").                                             *)
(*                                                                         *)
(* python-telegram-bot handles one update at a time (concurrent_updates is *)
(* left at its default), so one handler runs at a time; pc is its position *)
(* and every await of an external call is a step of its own, whose outcome *)
(* (return or exception) the environment chooses.                          *)
(***************************************************************************)
EXTENDS Integers, Sequences, FiniteSets, TLC

----------------------------------------------------------------------------
(* Text *)

NL == "\n"

UpperLetters ==
    <<"A", "B", "C", "D", "E", "F", "G", "H", "I", "J", "K", "L", "M",
      "N", "O", "P", "Q", "R", "S", "T", "U", "V", "W", "X", "Y", "Z">>

LowerLetters ==
    <<"a", "b", "c", "d", "e", "f", "g", "h", "i", "j", "k", "l", "m",
      "n", "o", "p", "q", "r", "s", "t", "u", "v", "w", "x", "y", "z">>

LetterIndex(letters, c) == CHOOSE i \in DOMAIN letters : letters[i] = c

LowerChar(c) ==
    IF \E i \in DOMAIN UpperLetters : UpperLetters[i] = c
    THEN LowerLetters[LetterIndex(UpperLetters, c)]
    ELSE c

UpperChar(c) ==
    IF \E i \in DOMAIN LowerLetters : LowerLetters[i] = c
    THEN UpperLetters[LetterIndex(LowerLetters, c)]
    ELSE c

\* str.lower()
Lower(s) == [i \in 1..Len(s) |-> LowerChar(s[i])]

\* str.capitalize(): the first character upper-cased, the rest lower-cased
Capitalize(s) == [i \in 1..Len(s) |-> IF i = 1 THEN UpperChar(s[i]) ELSE LowerChar(s[i])]

\* w in s  (substring test)
Contains(s, w) ==
    \E i \in 0..(Len(s) - Len(w)) : SubSeq(s, i + 1, i + Len(w)) = w

\* the members of a sequence
Range(s) == {s[i] : i \in DOMAIN s}

----------------------------------------------------------------------------
(* src/bot.py: configuration and the texts it sends *)

RESTRICTED_WORDS ==
    << <<"s", "p", "a", "m">>,
       <<"s", "c", "a", "m">>,
       <<"h", "a", "t", "e">> >>

PARSE_MODE == "Markdown"

NoticeHead == <<"U+1F6A8", " ", "U", "s", "e", "r", " ", "@">>

NoticeMid ==
    <<" ", "w", "a", "s", " ", "r", "e", "m", "o", "v", "e", "d", " ", "f", "o", "r", " ",
      "u", "s", "i", "n", "g", " ", "r", "e", "s", "t", "r", "i", "c", "t", "e", "d", " ",
      "w", "o", "r", "d", ":", " ", "'">>

\* f"🚨 User @{user.username} was removed for using restricted word: '{word}'"
Notice(user, word) == NoticeHead \o user.username \o NoticeMid \o word \o <<"'">>

APOLOGY ==
    <<"U+26A0", " ", "S", "o", "r", "r", "y", ",", " ", "I", " ", "e", "n", "c", "o", "u",
      "n", "t", "e", "r", "e", "d", " ", "a", "n", " ", "e", "r", "r", "o", "r", ".", " ",
      "P", "l", "e", "a", "s", "e", " ", "t", "r", "y", " ", "a", "g", "a", "i", "n", " ",
      "l", "a", "t", "e", "r", ".">>

BanFailedLog == [level |-> "error", msg |-> "Ban failed"]

BannedLog(word) == [level |-> "warning", msg |-> "Banned user", word |-> word]

GeminiErrorLog == [level |-> "error", msg |-> "Gemini error"]

----------------------------------------------------------------------------
(* The updates, and what the AI backend can answer *)

\* the longest reply the backend is made to produce
LongReplyLen == 4001

ShortReply == <<"h", "i">>

LongReply == [i \in 1..LongReplyLen |-> "x"]

BackendTexts == {ShortReply, LongReply}

Chats ==
    { [id |-> "c1", type |-> "private"],
      [id |-> "c2", type |-> "group"],
      [id |-> "c3", type |-> "supergroup"] }

Users == { [id |-> "u1", username |-> <<"a", "l">>] }

Texts ==
    { <<"h", "e", "l", "l", "o">>,
      <<"s", "p", " ", "a", "m">>,
      <<"S", "P", "A", "M">>,
      <<"S", "c", "a", "m", " ", "s", "p", "a", "m">>,
      <<"a", " ", "H", "a", "t", "e", " ", "s", "c", "a", "m">>,
      <<"H", "a", "T", "e">> }

Updates == [chat : Chats, from_user : Users, text : Texts]

NoUpdate ==
    [chat |-> [id |-> "none", type |-> "none"],
     from_user |-> [id |-> "none", username |-> <<>>],
     text |-> <<>>]

----------------------------------------------------------------------------
(* src/gemini_v3.py: the /mode command's configuration and texts *)

VALID_MODES ==
    << <<"p", "r", "o", "f", "e", "s", "s", "i", "o", "n", "a", "l">>,
       <<"c", "a", "s", "u", "a", "l">>,
       <<"c", "r", "e", "a", "t", "i", "v", "e">>,
       <<"t", "e", "c", "h", "n", "i", "c", "a", "l">> >>

MODE_USAGE ==
    <<"C", "u", "r", "r", "e", "n", "t", " ", "r", "e", "s", "p", "o", "n", "s", "e", " ",
      "m", "o", "d", "e", ":", " ", "S", "t", "a", "n", "d", "a", "r", "d", NL, "A", "v",
      "a", "i", "l", "a", "b", "l", "e", " ", "m", "o", "d", "e", "s", ":", NL, "/", "m",
      "o", "d", "e", " ", "p", "r", "o", "f", "e", "s", "s", "i", "o", "n", "a", "l", " ",
      "-", " ", "F", "o", "r", "m", "a", "l", " ", "b", "u", "s", "i", "n", "e", "s", "s",
      " ", "s", "t", "y", "l", "e", NL, "/", "m", "o", "d", "e", " ", "c", "a", "s", "u",
      "a", "l", " ", "-", " ", "F", "r", "i", "e", "n", "d", "l", "y", " ", "c", "o", "n",
      "v", "e", "r", "s", "a", "t", "i", "o", "n", "a", "l", NL, "/", "m", "o", "d", "e",
      " ", "c", "r", "e", "a", "t", "i", "v", "e", " ", "-", " ", "I", "m", "a", "g", "i",
      "n", "a", "t", "i", "v", "e", " ", "r", "e", "s", "p", "o", "n", "s", "e", "s", NL,
      "/", "m", "o", "d", "e", " ", "t", "e", "c", "h", "n", "i", "c", "a", "l", " ", "-",
      " ", "D", "e", "t", "a", "i", "l", "e", "d", " ", "e", "x", "p", "l", "a", "n", "a",
      "t", "i", "o", "n", "s">>

MODE_SET_PREFIX ==
    <<"R", "e", "s", "p", "o", "n", "s", "e", " ", "m", "o", "d", "e", " ", "s", "e", "t",
      " ", "t", "o", ":", " ">>

MODE_INVALID ==
    <<"I", "n", "v", "a", "l", "i", "d", " ", "m", "o", "d", "e", ".", " ", "C", "h", "o",
      "o", "s", "e", " ", "f", "r", "o", "m", ":", " ", "p", "r", "o", "f", "e", "s", "s",
      "i", "o", "n", "a", "l", ",", " ", "c", "a", "s", "u", "a", "l", ",", " ", "c", "r",
      "e", "a", "t", "i", "v", "e", ",", " ", "t", "e", "c", "h", "n", "i", "c", "a", "l">>

\* context.args of the /mode commands tried
ModeArgs ==
    { <<>>,
      << <<"c", "a", "s", "u", "a", "l">> >>,
      << <<"C", "A", "S", "U", "A", "L">> >>,
      << <<"T", "e", "c", "h", "n", "i", "c", "a", "l">> >>,
      << <<"c", "R", "e", "A", "t", "I", "v", "E">> >>,
      << <<"p", "r", "o", "f", "e", "s", "s", "i", "o", "n", "a", "l">> >>,
      << <<"f", "a", "n", "c", "y">> >>,
      << <<"S", "t", "a", "n", "d", "a", "r", "d">> >>,
      << <<"c", "a", "s", "u", "a">> >>,
      << <<"C", "a", "s", "u", "a", "l">>, <<"f", "a", "n", "c", "y">> >> }

ChatIds == {c.id : c \in Chats}

\* an empty dict
EmptyDict == [k \in {} |-> <<>>]

\* d[k] = v
DictSet(d, k, v) == [x \in (DOMAIN d) \cup {k} |-> IF x = k THEN v ELSE d[x]]

----------------------------------------------------------------------------
VARIABLES
    pc,             \* handle_message: "idle", "scan", "generate", "awaiting", "reply"
    update,         \* the update being handled (the last one, when idle)
    word_i,         \* check_restricted_words: index of `word` in RESTRICTED_WORDS
    ban_calls,      \* the ban_chat_member calls made for this update
    sent,           \* the reply_text calls made for this update
    backend_calls,  \* the prompts given to generate_content_async for this update
    backend,        \* the AI call: "idle", "pending", "returned", "raised"
    response,       \* handle_message's `response`
    log,            \* the records logged for this update
    outcome,        \* how the handler ended: "running", "returned", "raised"
    conversation,   \* observer: per chat, the turns exchanged so far
    chat_data,      \* gemini_v3: context.chat_data of each chat
    mode_update,    \* gemini_v3: the last /mode command (chat, context.args)
    mode_reply      \* gemini_v3: the text mode_command replied with

botvars == <<pc, update, word_i, ban_calls, sent, backend_calls, backend, response,
             log, outcome>>

modevars == <<chat_data, mode_update, mode_reply>>

vars == <<pc, update, word_i, ban_calls, sent, backend_calls, backend, response,
          log, outcome, conversation, chat_data, mode_update, mode_reply>>

Init ==
    /\ pc = "idle"
    /\ update = NoUpdate
    /\ word_i = 1
    /\ ban_calls = <<>>
    /\ sent = <<>>
    /\ backend_calls = <<>>
    /\ backend = "idle"
    /\ response = <<>>
    /\ log = <<>>
    /\ outcome = "returned"
    /\ conversation = [c \in ChatIds |-> <<>>]
    /\ chat_data = [c \in ChatIds |-> EmptyDict]
    /\ mode_update = [chat |-> "none", args |-> <<>>]
    /\ mode_reply = <<>>

----------------------------------------------------------------------------
(* src/bot.py: handle_message *)

\* faulty variant: the restricted-word check applied whatever the chat's type
IsGroupChat_AnyChat(type) == type \in {"private", "group", "supergroup"}

\* update.message.chat.type in ["group", "supergroup"]
IsGroupChat(type) == type \in {"group", "supergroup"}

\* the dispatcher hands the next text update to handle_message, which enters
\* check_restricted_words in a group chat and goes on to the Gemini call otherwise
Receive(u) ==
    /\ pc = "idle"
    /\ update' = u
    /\ pc' = IF IsGroupChat(u.chat.type) THEN "scan" ELSE "generate"
    /\ word_i' = 1
    /\ ban_calls' = <<>>
    /\ sent' = <<>>
    /\ backend_calls' = <<>>
    /\ backend' = "idle"
    /\ response' = <<>>
    /\ log' = <<>>
    /\ outcome' = "running"

\* message_text = update.message.text.lower()
MessageText == Lower(update.text)

\* the loop's current `word`
Word == RESTRICTED_WORDS[word_i]

\* if word in message_text
WordMatches == Contains(MessageText, Word)

\* the for loop goes on to its next word, or ends and check_restricted_words returns
NextWord ==
    IF word_i < Len(RESTRICTED_WORDS)
    THEN word_i' = word_i + 1 /\ pc' = "scan"
    ELSE word_i' = word_i /\ pc' = "generate"

\* context.bot.ban_chat_member(chat_id=update.message.chat.id, user_id=user.id),
\* and whether it returned
BanCall(ok) == [chat_id |-> update.chat.id, user_id |-> update.from_user.id, ok |-> ok]

\* a reply_text call: where it is made, its text, and whether it returned
ReplyCall(site, text, ok) ==
    [site |-> site, text |-> text, parse_mode |-> PARSE_MODE, ok |-> ok]

\* the word is not in the text: next iteration
ScanNoMatch ==
    /\ pc = "scan"
    /\ ~WordMatches
    /\ NextWord
    /\ UNCHANGED <<update, ban_calls, sent, backend_calls, backend, response, log, outcome>>

\* the word is in the text and ban_chat_member raises: the except clause logs
\* it and the loop goes on
BanRaises ==
    /\ pc = "scan"
    /\ WordMatches
    /\ ban_calls' = Append(ban_calls, BanCall(FALSE))
    /\ log' = Append(log, BanFailedLog)
    /\ NextWord
    /\ UNCHANGED <<update, sent, backend_calls, backend, response, outcome>>

\* the word is in the text, the ban and the notification succeed: log, break
BanAndNotify ==
    /\ pc = "scan"
    /\ WordMatches
    /\ ban_calls' = Append(ban_calls, BanCall(TRUE))
    /\ sent' = Append(sent, ReplyCall("notify", Notice(update.from_user, Word), TRUE))
    /\ log' = Append(log, BannedLog(Word))
    /\ pc' = "generate"
    /\ UNCHANGED <<update, word_i, backend_calls, backend, response, outcome>>

\* the word is in the text, the ban succeeds and the notification raises: the
\* except clause logs it and the loop goes on
NotifyRaises ==
    /\ pc = "scan"
    /\ WordMatches
    /\ ban_calls' = Append(ban_calls, BanCall(TRUE))
    /\ sent' = Append(sent, ReplyCall("notify", Notice(update.from_user, Word), FALSE))
    /\ log' = Append(log, BanFailedLog)
    /\ NextWord
    /\ UNCHANGED <<update, backend_calls, backend, response, outcome>>

\* user_message = update.message.text; generate_gemini_response(user_message)
\* calls model.generate_content_async(prompt) and awaits it
CallBackend ==
    /\ pc = "generate"
    /\ backend_calls' = Append(backend_calls, update.text)
    /\ backend' = "pending"
    /\ pc' = "awaiting"
    /\ UNCHANGED <<update, word_i, ban_calls, sent, response, log, outcome>>

\* the call returns and response.text is the reply
BackendReturns(text) ==
    /\ pc = "awaiting"
    /\ backend' = "returned"
    /\ response' = text
    /\ pc' = "reply"
    /\ UNCHANGED <<update, word_i, ban_calls, sent, backend_calls, log, outcome>>

\* faulty variant: generate_gemini_response without its try/except: the exception
\* leaves generate_gemini_response and handle_message
GeminiExcept_Propagates ==
    /\ pc' = "idle"
    /\ outcome' = "raised"
    /\ UNCHANGED <<log, response, sent>>

\* generate_gemini_response's except clause: log, return the apology
GeminiExcept ==
    /\ log' = Append(log, GeminiErrorLog)
    /\ response' = APOLOGY
    /\ pc' = "reply"
    /\ UNCHANGED <<sent, outcome>>

\* the call (or response.text) raises
BackendRaises ==
    /\ pc = "awaiting"
    /\ backend' = "raised"
    /\ GeminiExcept
    /\ UNCHANGED <<update, word_i, ban_calls, backend_calls>>

\* update.message.reply_text(response, parse_mode='Markdown'): the handler
\* returns, or the send's exception leaves it
SendReply(ok) ==
    /\ pc = "reply"
    /\ sent' = Append(sent, ReplyCall("reply", response, ok))
    /\ outcome' = IF ok THEN "returned" ELSE "raised"
    /\ pc' = "idle"
    /\ UNCHANGED <<update, word_i, ban_calls, backend_calls, backend, response, log>>

----------------------------------------------------------------------------
(* src/gemini_v3.py: mode_command *)

\* faulty variant: mode = args[0], the .lower() forgotten
NormalizeMode_NoLower(arg) == arg

\* mode = args[0].lower()
NormalizeMode(arg) == Lower(arg)

\* if mode in ['professional', 'casual', 'creative', 'technical']
IsValidMode(mode) == mode \in Range(VALID_MODES)

\* if not args: the usage text, and return
ModeShow(c) ==
    /\ mode_update' = [chat |-> c, args |-> <<>>]
    /\ mode_reply' = MODE_USAGE
    /\ UNCHANGED chat_data

\* a valid mode: context.chat_data['response_mode'] = mode, and the confirmation
ModeSet(c, args) ==
    /\ args # <<>>
    /\ IsValidMode(NormalizeMode(args[1]))
    /\ mode_update' = [chat |-> c, args |-> args]
    /\ chat_data' = [chat_data EXCEPT
                       ![c] = DictSet(@, "response_mode", NormalizeMode(args[1]))]
    /\ mode_reply' = MODE_SET_PREFIX \o Capitalize(NormalizeMode(args[1]))

\* any other mode: the error text
ModeInvalid(c, args) ==
    /\ args # <<>>
    /\ ~IsValidMode(NormalizeMode(args[1]))
    /\ mode_update' = [chat |-> c, args |-> args]
    /\ mode_reply' = MODE_INVALID
    /\ UNCHANGED chat_data

----------------------------------------------------------------------------
(* The observer of the conversation: the turns a chat has exchanged, in     *)
(* order.  bot.py keeps no such record; the observer is what the history of *)
(* a chat would hold, so that the prompt given to the backend can be        *)
(* compared with it.                                                        *)

\* the number of updates whose turns the observer records
MaxUpdates == 2

Turn(role, text) == [role |-> role, text |-> text]

IsUserTurn(t) == t.role = "user"

RECURSIVE UserTurns(_)
UserTurns(chats) ==
    IF chats = {} THEN 0
    ELSE LET c == CHOOSE x \in chats : TRUE
         IN  Len(SelectSeq(conversation[c], IsUserTurn)) + UserTurns(chats \ {c})

Observe(c, turn) == conversation' = [conversation EXCEPT ![c] = Append(@, turn)]

----------------------------------------------------------------------------
(* Specifications *)

\* src/bot.py: the bot handles updates one after the other, for ever
DoReceive == (\E u \in Updates : Receive(u)) /\ UNCHANGED <<conversation, modevars>>

DoScanNoMatch == ScanNoMatch /\ UNCHANGED <<conversation, modevars>>

DoBanRaises == BanRaises /\ UNCHANGED <<conversation, modevars>>

DoBanAndNotify == BanAndNotify /\ UNCHANGED <<conversation, modevars>>

DoNotifyRaises == NotifyRaises /\ UNCHANGED <<conversation, modevars>>

DoCallBackend == CallBackend /\ UNCHANGED <<conversation, modevars>>

DoBackendReturns ==
    (\E t \in BackendTexts : BackendReturns(t)) /\ UNCHANGED <<conversation, modevars>>

DoBackendRaises == BackendRaises /\ UNCHANGED <<conversation, modevars>>

DoSendReply == (\E ok \in BOOLEAN : SendReply(ok)) /\ UNCHANGED <<conversation, modevars>>

\* the steps the handler takes by itself (the event loop runs it when it can run)
HandlerStep ==
    \/ DoScanNoMatch
    \/ DoBanRaises
    \/ DoBanAndNotify
    \/ DoNotifyRaises
    \/ DoCallBackend
    \/ DoSendReply

Next ==
    \/ DoReceive
    \/ DoScanNoMatch
    \/ DoBanRaises
    \/ DoBanAndNotify
    \/ DoNotifyRaises
    \/ DoCallBackend
    \/ DoBackendReturns
    \/ DoBackendRaises
    \/ DoSendReply

Spec == Init /\ [][Next]_vars

\* The event loop resumes a handler whose awaited call has completed, so the
\* handler's own steps are weakly fair.  Nothing makes the AI backend answer:
\* DoBackendReturns and DoBackendRaises carry no fairness.
FairSpec == Init /\ [][Next]_vars /\ WF_vars(HandlerStep)

\* src/bot.py with the observer recording the turns of the first MaxUpdates updates
ObsReceive ==
    /\ UserTurns(ChatIds) < MaxUpdates
    /\ \E u \in Updates : Receive(u)
    /\ UNCHANGED <<conversation, modevars>>

ObsCallBackend ==
    /\ CallBackend
    /\ Observe(update.chat.id, Turn("user", update.text))
    /\ UNCHANGED modevars

ObsBackendReturns ==
    /\ \E t \in BackendTexts : BackendReturns(t) /\ Observe(update.chat.id, Turn("model", t))
    /\ UNCHANGED modevars

ObsNext ==
    \/ ObsReceive
    \/ DoScanNoMatch
    \/ DoBanRaises
    \/ DoBanAndNotify
    \/ DoNotifyRaises
    \/ ObsCallBackend
    \/ ObsBackendReturns
    \/ DoBackendRaises
    \/ DoSendReply

ObsSpec == Init /\ [][ObsNext]_vars

\* src/gemini_v3.py: /mode commands, in any chat, with any of the arguments
DoModeShow == (\E c \in ChatIds : ModeShow(c)) /\ UNCHANGED <<botvars, conversation>>

DoModeSet ==
    (\E c \in ChatIds, args \in ModeArgs : ModeSet(c, args))
    /\ UNCHANGED <<botvars, conversation>>

DoModeInvalid ==
    (\E c \in ChatIds, args \in ModeArgs : ModeInvalid(c, args))
    /\ UNCHANGED <<botvars, conversation>>

ModeNext == DoModeShow \/ DoModeSet \/ DoModeInvalid

ModeSpec == Init /\ [][ModeNext]_vars

----------------------------------------------------------------------------
(* What the properties speak of *)

\* the reply_text calls made at one place of the handler
SentAt(site) == SelectSeq(sent, LAMBDA m : m.site = site)

Notices == SentAt("notify")

Replies == SentAt("reply")

\* an update has been received
Handling == update # NoUpdate

InGroup == update.chat.type \in {"group", "supergroup"}

\* the denylist entries the text contains, case-insensitively
DeniedIn(text) == {w \in Range(RESTRICTED_WORDS) : Contains(Lower(text), w)}

\* check_restricted_words is over (or was never entered)
PastModeration == Handling /\ pc # "scan"

\* the handler has ended
Ended == Handling /\ pc = "idle"

\* a prompt string, as the history it amounts to: one user turn
AsHistory(prompt) == <<Turn("user", prompt)>>

RECURSIVE Concat(_)
Concat(msgs) == IF msgs = <<>> THEN <<>> ELSE Head(msgs).text \o Concat(Tail(msgs))

CeilDiv(a, b) == (a + b - 1) \div b

ModeNames ==
    { <<"p", "r", "o", "f", "e", "s", "s", "i", "o", "n", "a", "l">>,
      <<"c", "a", "s", "u", "a", "l">>,
      <<"c", "r", "e", "a", "t", "i", "v", "e">>,
      <<"t", "e", "c", "h", "n", "i", "c", "a", "l">> }

\* the mode a usage text reports: what follows "Current response mode: " on
\* its first line
ReportedMode(text) ==
    LET label ==
    <<"C", "u", "r", "r", "e", "n", "t", " ", "r", "e", "s", "p", "o", "n", "s", "e", " ",
      "m", "o", "d", "e", ":", " ">>
        ends  == {i \in DOMAIN text : text[i] = NL} \cup {Len(text) + 1}
        eol   == CHOOSE i \in ends : \A j \in ends : i <= j
    IN  IF SubSeq(text, 1, Len(label)) = label
        THEN SubSeq(text, Len(label) + 1, eol - 1)
        ELSE <<>>

\* the mode of a chat: the stored one, "standard" when none was stored
CurrentMode(c) ==
    IF "response_mode" \in DOMAIN chat_data[c]
    THEN chat_data[c]["response_mode"]
    ELSE <<"s", "t", "a", "n", "d", "a", "r", "d">>

----------------------------------------------------------------------------
(* Properties *)

\* C1: a group message whose text contains a denylist entry gets exactly one
\* ban_chat_member attempt and exactly one notification, whatever the
\* outcome of the two calls and however many entries match.
C1_ExactlyOneBanAndNotice ==
    (PastModeration /\ InGroup /\ DeniedIn(update.text) # {})
        => (Len(ban_calls) = 1 /\ Len(Notices) = 1)

\* C2: for a group message containing a denylist entry a removal is
\* attempted, the notification names the matching entry, and the Gemini
\* call is never made for it.
C2_MatchNeverReachesGenerator ==
    (PastModeration /\ InGroup /\ DeniedIn(update.text) # {})
        => /\ ban_calls # <<>>
           /\ \A i \in DOMAIN Notices :
                 \E w \in DeniedIn(update.text) : Contains(Notices[i].text, w)
           /\ backend_calls = <<>>

\* C3: when ban_chat_member raises for a matching group message, the failure
\* is logged and the notification is still sent for that message.
C3_FailedBanStillNotifies ==
    (PastModeration /\ \E i \in DOMAIN ban_calls : ~ban_calls[i].ok)
        => (BanFailedLog \in Range(log) /\ Notices # <<>>)

\* C4: a /mode command with one argument: an argument that is a mode name in
\* any letter case stores its lowercase form for the chat (and for no other
\* chat) and is confirmed; any other argument changes no stored mode and is
\* answered with the invalid-mode text.
C4_ModeStep ==
    LET c    == mode_update'.chat
        args == mode_update'.args
    IN  Len(args) = 1 =>
          IF Lower(args[1]) \in ModeNames
          THEN /\ "response_mode" \in DOMAIN chat_data'[c]
               /\ chat_data'[c]["response_mode"] = Lower(args[1])
               /\ \A d \in ChatIds \ {c} : chat_data'[d] = chat_data[d]
               /\ mode_reply' = MODE_SET_PREFIX \o Capitalize(Lower(args[1]))
          ELSE /\ chat_data' = chat_data
               /\ mode_reply' = MODE_INVALID

\* C4: every step of the /mode command is such a step
C4_ModeSelector == [][C4_ModeStep]_vars

\* C4 witness: "/mode fancy" was refused in a chat whose mode "/mode Technical"
\* had set, and the stored mode is still "technical"
C4_Witness ==
    /\ mode_update.args = << <<"f", "a", "n", "c", "y">> >>
    /\ mode_update.chat = "c2"
    /\ mode_reply = MODE_INVALID
    /\ CurrentMode("c2") = <<"t", "e", "c", "h", "n", "i", "c", "a", "l">>

\* C5: /mode without arguments reports the chat's current mode ("standard"
\* when none was set, else the last one set) and lists every mode.
C5_ModeShowReportsCurrent ==
    (mode_update.chat \in ChatIds /\ mode_update.args = <<>>)
        => /\ Lower(ReportedMode(mode_reply)) = CurrentMode(mode_update.chat)
           /\ \A m \in ModeNames : Contains(mode_reply, m)

\* C6: when the AI call raises, generate_gemini_response logs it and returns
\* the apology: the handler sends the apology as its one reply, the backend
\* is called once and never again, and only a failing send can make the
\* handler end with an exception.
C6_BackendErrorApology ==
    /\ Len(backend_calls) <= 1
    /\ backend = "raised" =>
         /\ pc \in {"reply", "idle"}
         /\ Len(backend_calls) = 1
         /\ GeminiErrorLog \in Range(log)
         /\ response = APOLOGY
         /\ pc = "idle" =>
              /\ Len(Replies) = 1
              /\ Replies[1].text = APOLOGY
              /\ outcome = "raised" => ~Replies[1].ok

\* C6 witness: the AI call raised and the handler returned after its reply
C6_Witness ==
    /\ Ended
    /\ backend = "raised"
    /\ outcome = "returned"
    /\ Len(Replies) = 1

\* C7: when the AI call does not return, the handling of the message still
\* ends (with the timeout message as its reply).
C7_BackendTimeoutEndsHandling == (pc = "awaiting") ~> (pc = "idle" /\ Len(Replies) = 1)

\* C8: a reply of length L is sent as ceil(L / 4000) messages, in order, each
\* of at most 4000 characters, whose concatenation is the reply.
C8_ReplyIsChunked ==
    LET C == 4000
    IN  (Ended /\ outcome = "returned")
            => /\ Len(Replies) = CeilDiv(Len(response), C)
               /\ \A i \in DOMAIN Replies : Len(Replies[i].text) <= C
               /\ Concat(Replies) = response

\* C9: the turns of a chat are kept in order, a user turn for each message
\* and a model turn for each successful generation, and the backend is
\* called with the chat's full ordered history.
C9_BackendGetsFullHistory ==
    (pc = "awaiting" /\ backend_calls # <<>>)
        => AsHistory(backend_calls[Len(backend_calls)]) = conversation[update.chat.id]

\* C10: a ban or a notification happens only for a group or supergroup
\* message whose lowercased text contains a denylist entry; any other
\* message gets neither and goes on to the Gemini call with its text.
C10_ModerationOnlyOnGroupMatch ==
    /\ (ban_calls # <<>> \/ Notices # <<>>)
           => (InGroup /\ DeniedIn(update.text) # {})
    /\ (PastModeration /\ ~(InGroup /\ DeniedIn(update.text) # {}))
           => /\ ban_calls = <<>>
              /\ Notices = <<>>
              /\ pc = "generate" \/ backend_calls = <<update.text>>

\* C10 witness: a direct message containing a denylist entry was answered
\* without a ban
C10_Witness ==
    /\ Ended
    /\ update.chat.type = "private"
    /\ DeniedIn(update.text) # {}
    /\ ban_calls = <<>>
    /\ backend_calls = <<update.text>>
    /\ Len(Replies) = 1

====
